---- MODULE Spec2Model ----
(***************************************************************************)
(* The LRU queue device of zguide/examples/C in its two realizations:      *)
(* lruqueue2.c (a loop around zmq_poll) and lruqueue3.c (handlers run by   *)
(* a zloop reactor).  A frame is a sequence of bytes, a message a sequence *)
(* of frames.  Every variable is a function of the realization, so that    *)
(* the two brokers can be run side by side on the same arriving messages.  *)
(***************************************************************************)
EXTENDS Integers, Sequences, FiniteSets, TLC

VARIABLES
    active,            \* the realizations that run in this behaviour
    interruptible,     \* whether the transport may signal interruption
    pc,                \* position of each broker's main thread
    workers,           \* the zlist of ready workers (frames), front first
    listening,         \* sockets in the poll set / with a registered reader
    revents,           \* lruqueue2: sockets zmq_poll reported readable
    backend_arrived,   \* messages that reached the backend ROUTER, in order
    backend_nread,     \* how many of them the broker has received
    frontend_arrived,  \* messages that reached the frontend ROUTER, in order
    frontend_nread,    \* how many of them the broker has received
    backend_sent,      \* messages the broker sent on the backend, in order
    frontend_sent,     \* messages the broker sent on the frontend, in order
    started,           \* worker_task: has sent its LRU_READY
    answered,          \* worker_task: number of requests answered
    requested,         \* client_task: number of requests sent
    replied,           \* client_task: number of replies received
    envelope           \* a message taken through zmsg_wrap and zmsg_unwrap

vars == <<active, interruptible, pc, workers, listening, revents, backend_arrived,
          backend_nread, frontend_arrived, frontend_nread, backend_sent,
          frontend_sent, started, answered, requested, replied, envelope>>

brokerVars == <<pc, workers, listening, revents, backend_nread,
                frontend_nread, backend_sent, frontend_sent>>

peerVars == <<started, answered, requested, replied>>

-----------------------------------------------------------------------------
(* Bounds of the model *)

\* messages fed to the backend socket of a broker
MaxBackend == 2
\* messages fed to the frontend socket of a broker
MaxFrontend == 2
\* requests each client_task sends
MaxRequests == 1
\* frames of a message taken through zmsg_wrap and zmsg_unwrap
MaxFrames == 2

-----------------------------------------------------------------------------
(* Frames, addresses and messages *)

Impl == {"lruqueue2", "lruqueue3"}

Sockets == {"backend", "frontend"}

\* #define LRU_READY "\001"
LRU_READY == <<1>>

\* the empty delimiter frame of a REQ envelope
Empty == << >>

\* what zlist_pop returns on an empty list
NULL == <<-1>>

HELLO == <<72, 69, 76, 76, 79>>

OK == <<79, 75>>

\* Identities of the worker peers on the backend ROUTER.
WorkerAddrs == {<<0, 7>>, <<0, 8>>}

\* Identities of the client peers on the frontend ROUTER: one generated by
\* the socket (leading zero byte) and one set by the peer, which may start
\* with any non-zero byte.
ClientAddrs == {<<0, 9>>, <<1, 9>>}

\* What the backend ROUTER delivers for a worker's LRU_READY frame sent
\* through a REQ socket: identity, delimiter, frame.
ReadyMsg(w) == <<w, Empty, LRU_READY>>

\* What the backend ROUTER delivers for a worker's reply to the request
\* that came from client c.
ReplyMsg(w, c, body) == <<w, Empty, c, Empty, body>>

\* What the frontend ROUTER delivers for a client's request.
RequestMsg(c, body) == <<c, Empty, body>>

BackendMsgs ==
    {ReadyMsg(w) : w \in WorkerAddrs}
        \cup {ReplyMsg(w, c, OK) : w \in WorkerAddrs, c \in ClientAddrs}

FrontendMsgs == {RequestMsg(c, HELLO) : c \in ClientAddrs}

-----------------------------------------------------------------------------
(* The czmq calls the brokers make *)

\* Variant: the frame after the address is left in place.
zmsg_unwrap_keep(msg) == [address |-> Head(msg), msg |-> Tail(msg)]

\* zmsg_unwrap: pop the first frame, and the empty frame after it if any.
zmsg_unwrap(msg) ==
    LET rest == Tail(msg)
    IN  [address |-> Head(msg),
         msg |-> IF rest # << >> /\ Head(rest) = Empty THEN Tail(rest) ELSE rest]

\* Variant: the address frame is pushed without the empty frame.
zmsg_wrap_bare(msg, frame) == <<frame>> \o msg

\* zmsg_wrap: push an empty frame, then the address frame.
zmsg_wrap(msg, frame) == <<frame, Empty>> \o msg

\* zmsg_first
zmsg_first(msg) == IF msg = << >> THEN NULL ELSE Head(msg)

\* Variant: an item already in the list is not added again.
zlist_append_unique(list, item) ==
    IF \E i \in 1..Len(list) : list[i] = item THEN list ELSE Append(list, item)

\* Variant: the item is pushed at the front of the list.
zlist_push_front(list, item) == <<item>> \o list

\* zlist_append
zlist_append(list, item) == Append(list, item)

\* zlist_pop: the item removed from the front, NULL on an empty list
zlist_pop(list) ==
    IF list = << >> THEN [item |-> NULL, list |-> list]
    ELSE [item |-> Head(list), list |-> Tail(list)]

zlist_size(list) == Len(list)

\* the cleanup loop after the event loop: pop and destroy until empty
RECURSIVE cleanup(_)
cleanup(list) ==
    IF zlist_size(list) = 0 THEN list ELSE cleanup(zlist_pop(list).list)

-----------------------------------------------------------------------------
(* The transport, as the broker sees it *)

Readable(k, socket) ==
    IF socket = "backend" THEN backend_nread[k] < Len(backend_arrived[k])
    ELSE frontend_nread[k] < Len(frontend_arrived[k])

\* the message zmsg_recv returns next on each socket
NextBackend(k) == backend_arrived[k][backend_nread[k] + 1]

NextFrontend(k) == frontend_arrived[k][frontend_nread[k] + 1]

\* the outcomes of a zmsg_recv on a readable socket: a message (TRUE), or
\* NULL when the call is interrupted (FALSE)
Received == IF interruptible THEN BOOLEAN ELSE {TRUE}

Set(f, k, v) == [f EXCEPT ![k] = v]

-----------------------------------------------------------------------------
(* lruqueue2.c: the loop around zmq_poll *)

\* Variant: the frontend is polled whatever the list holds.
main_pollset_always(list) == {"backend", "frontend"}

\* zmq_poll (items, zlist_size (workers)? 2: 1, -1): the items polled
main_pollset(list) ==
    IF zlist_size(list) # 0 THEN {"backend", "frontend"} ELSE {"backend"}

\* Variant: no frame is taken for a READY.
main_is_READY_never(frame) == {FALSE}

\* memcmp (zframe_data (frame), LRU_READY, 1) == 0: the possible results.
\* On a frame of size 0 the byte compared lies outside the frame's data.
main_is_READY(frame) ==
    IF Len(frame) = 0 THEN BOOLEAN ELSE {frame[1] = LRU_READY[1]}

\* Variant: the first worker is read but stays in the list.
main_pop_peek(list) ==
    [item |-> IF list = << >> THEN NULL ELSE Head(list), list |-> list]

\* zlist_pop (workers) for the client request
main_pop(list) == zlist_pop(list)

\* break out of the loop, clean up and return
main_exit(k) ==
    /\ workers' = Set(workers, k, cleanup(workers[k]))
    /\ pc' = Set(pc, k, "done")

\* zmq_poll returns with the readable items flagged
main_poll(k) ==
    /\ k = "lruqueue2" /\ k \in active /\ pc[k] = "poll"
    /\ \E s \in listening[k] : Readable(k, s)
    /\ revents' = Set(revents, k, {s \in listening[k] : Readable(k, s)})
    /\ pc' = Set(pc, k, "backend")
    /\ UNCHANGED <<active, interruptible, envelope, workers, listening, backend_arrived, backend_nread,
                   frontend_arrived, frontend_nread, backend_sent,
                   frontend_sent, peerVars>>

\* zmq_poll returns -1: interrupted
main_poll_interrupted(k) ==
    /\ k = "lruqueue2" /\ k \in active /\ pc[k] = "poll"
    /\ interruptible
    /\ main_exit(k)
    /\ UNCHANGED <<active, interruptible, envelope, listening, revents, backend_arrived, backend_nread,
                   frontend_arrived, frontend_nread, backend_sent,
                   frontend_sent, peerVars>>

\* if (items [0].revents & ZMQ_POLLIN) { ... }
main_backend(k) ==
    /\ k = "lruqueue2" /\ k \in active /\ pc[k] = "backend"
    /\ UNCHANGED <<active, interruptible, envelope, listening, revents, backend_arrived,
                   frontend_arrived, frontend_nread, backend_sent, peerVars>>
    /\ IF "backend" \notin revents[k]
       THEN /\ pc' = Set(pc, k, "frontend")
            /\ UNCHANGED <<workers, backend_nread, frontend_sent>>
       ELSE \E received \in Received :
            IF ~received
            THEN \* zmsg_recv returned NULL: break
                 /\ main_exit(k)
                 /\ UNCHANGED <<backend_nread, frontend_sent>>
            ELSE LET u == zmsg_unwrap(NextBackend(k))
                     frame == zmsg_first(u.msg)
                 IN  /\ backend_nread' = Set(backend_nread, k, backend_nread[k] + 1)
                     /\ workers' = Set(workers, k, zlist_append(workers[k], u.address))
                     /\ IF frame = NULL
                        THEN \* zframe_data asserts on a NULL frame
                             /\ pc' = Set(pc, k, "aborted")
                             /\ UNCHANGED frontend_sent
                        ELSE /\ pc' = Set(pc, k, "frontend")
                             /\ \E ready \in main_is_READY(frame) :
                                  frontend_sent' =
                                      IF ready THEN frontend_sent
                                      ELSE Set(frontend_sent, k,
                                               Append(frontend_sent[k], u.msg))

\* if (items [1].revents & ZMQ_POLLIN) { ... }, then the next zmq_poll call
main_frontend(k) ==
    /\ k = "lruqueue2" /\ k \in active /\ pc[k] = "frontend"
    /\ UNCHANGED <<active, interruptible, envelope, backend_arrived, backend_nread, frontend_arrived,
                   frontend_sent, peerVars>>
    /\ revents' = Set(revents, k, {})
    /\ IF "frontend" \notin revents[k]
       THEN /\ pc' = Set(pc, k, "poll")
            /\ listening' = Set(listening, k, main_pollset(workers[k]))
            /\ UNCHANGED <<workers, frontend_nread, backend_sent>>
       ELSE \E received \in Received :
            IF ~received
            THEN \* zmsg_recv returned NULL: nothing to route
                 /\ pc' = Set(pc, k, "poll")
                 /\ listening' = Set(listening, k, main_pollset(workers[k]))
                 /\ UNCHANGED <<workers, frontend_nread, backend_sent>>
            ELSE LET p == main_pop(workers[k])
                 IN  /\ frontend_nread' = Set(frontend_nread, k, frontend_nread[k] + 1)
                     /\ workers' = Set(workers, k, p.list)
                     /\ IF p.item = NULL
                        THEN \* zmsg_wrap asserts on a NULL frame
                             /\ pc' = Set(pc, k, "aborted")
                             /\ UNCHANGED <<listening, backend_sent>>
                        ELSE /\ pc' = Set(pc, k, "poll")
                             /\ listening' = Set(listening, k, main_pollset(p.list))
                             /\ backend_sent' =
                                    Set(backend_sent, k,
                                        Append(backend_sent[k],
                                               zmsg_wrap(NextFrontend(k), p.item)))

-----------------------------------------------------------------------------
(* lruqueue3.c: the handlers run by the zloop reactor *)

\* memcmp (zframe_data (frame), LRU_READY, 1) == 0 in s_handle_backend
s_is_READY(frame) ==
    IF Len(frame) = 0 THEN BOOLEAN ELSE {frame[1] = LRU_READY[1]}

\* Variant: the most recently appended worker is taken.
s_pop_last(list) ==
    IF list = << >> THEN [item |-> NULL, list |-> list]
    ELSE [item |-> list[Len(list)], list |-> SubSeq(list, 1, Len(list) - 1)]

\* Variant: the first worker is read but stays in the list.
s_pop_peek(list) ==
    [item |-> IF list = << >> THEN NULL ELSE Head(list), list |-> list]

\* zlist_pop (self->workers) in s_handle_frontend
s_pop(list) == zlist_pop(list)

\* Variant: the frontend reader is never registered.
s_enable_reader_never(list, readers) == readers

\* if (zlist_size (self->workers) == 1) zloop_reader (loop, self->frontend, ...)
s_enable_reader(list, readers) ==
    IF zlist_size(list) = 1 THEN readers \cup {"frontend"} ELSE readers

\* Variant: the frontend reader is never cancelled.
s_cancel_reader_never(list, readers) == readers

\* Variant: the reader cancelled is the one on the backend.
s_cancel_reader_backend(list, readers) ==
    IF Len(list) = 0 THEN readers \ {"backend"} ELSE readers

\* if (zlist_size (self->workers) == 0) zloop_cancel (loop, self->frontend)
s_cancel_reader(list, readers) ==
    IF zlist_size(list) = 0 THEN readers \ {"frontend"} ELSE readers

\* The reactor finds the backend readable and calls s_handle_backend.
s_handle_backend(k) ==
    /\ k = "lruqueue3" /\ k \in active /\ pc[k] = "reactor"
    /\ "backend" \in listening[k] /\ Readable(k, "backend")
    /\ UNCHANGED <<active, interruptible, envelope, revents, backend_arrived, frontend_arrived,
                   frontend_nread, backend_sent, peerVars>>
    /\ \E received \in Received :
         IF ~received
         THEN \* zmsg_recv returned NULL: return 0
              UNCHANGED <<pc, workers, listening, backend_nread, frontend_sent>>
         ELSE LET u == zmsg_unwrap(NextBackend(k))
                  list == zlist_append(workers[k], u.address)
                  frame == zmsg_first(u.msg)
              IN  /\ backend_nread' = Set(backend_nread, k, backend_nread[k] + 1)
                  /\ workers' = Set(workers, k, list)
                  /\ listening' = Set(listening, k, s_enable_reader(list, listening[k]))
                  /\ IF frame = NULL
                     THEN \* zframe_data asserts on a NULL frame
                          /\ pc' = Set(pc, k, "aborted")
                          /\ UNCHANGED frontend_sent
                     ELSE /\ UNCHANGED pc
                          /\ \E ready \in s_is_READY(frame) :
                               frontend_sent' =
                                   IF ready THEN frontend_sent
                                   ELSE Set(frontend_sent, k,
                                            Append(frontend_sent[k], u.msg))

\* The reactor finds the frontend readable and calls s_handle_frontend.
s_handle_frontend(k) ==
    /\ k = "lruqueue3" /\ k \in active /\ pc[k] = "reactor"
    /\ "frontend" \in listening[k] /\ Readable(k, "frontend")
    /\ UNCHANGED <<active, interruptible, envelope, revents, backend_arrived, backend_nread,
                   frontend_arrived, frontend_sent, peerVars>>
    /\ \E received \in Received :
         IF ~received
         THEN \* zmsg_recv returned NULL: return 0
              UNCHANGED <<pc, workers, listening, frontend_nread, backend_sent>>
         ELSE LET p == s_pop(workers[k])
              IN  /\ frontend_nread' = Set(frontend_nread, k, frontend_nread[k] + 1)
                  /\ workers' = Set(workers, k, p.list)
                  /\ IF p.item = NULL
                     THEN \* zmsg_wrap asserts on a NULL frame
                          /\ pc' = Set(pc, k, "aborted")
                          /\ UNCHANGED <<listening, backend_sent>>
                     ELSE /\ UNCHANGED pc
                          /\ listening' =
                                 Set(listening, k, s_cancel_reader(p.list, listening[k]))
                          /\ backend_sent' =
                                 Set(backend_sent, k,
                                     Append(backend_sent[k],
                                            zmsg_wrap(NextFrontend(k), p.item)))

\* zloop_start returns (interrupted); zloop_destroy, then main cleans up.
zloop_interrupted(k) ==
    /\ k = "lruqueue3" /\ k \in active /\ pc[k] = "reactor"
    /\ interruptible
    /\ workers' = Set(workers, k, cleanup(workers[k]))
    /\ listening' = Set(listening, k, {})
    /\ pc' = Set(pc, k, "done")
    /\ UNCHANGED <<active, interruptible, envelope, revents, backend_arrived, backend_nread,
                   frontend_arrived, frontend_nread, backend_sent,
                   frontend_sent, peerVars>>

-----------------------------------------------------------------------------
(* Messages reaching the sockets of every running broker *)

FeedBackend(m) ==
    /\ \A k \in active : Len(backend_arrived[k]) < MaxBackend
    /\ backend_arrived' =
           [k \in Impl |-> IF k \in active THEN Append(backend_arrived[k], m)
                           ELSE backend_arrived[k]]
    /\ UNCHANGED <<active, interruptible, envelope, brokerVars, frontend_arrived, peerVars>>

FeedFrontend(m) ==
    /\ \A k \in active : Len(frontend_arrived[k]) < MaxFrontend
    /\ frontend_arrived' =
           [k \in Impl |-> IF k \in active THEN Append(frontend_arrived[k], m)
                           ELSE frontend_arrived[k]]
    /\ UNCHANGED <<active, interruptible, envelope, brokerVars, backend_arrived, peerVars>>

-----------------------------------------------------------------------------
(* worker_task and client_task, each behind a REQ socket *)

\* The messages a ROUTER socket has routed to the peer with this identity:
\* the first frame selects the peer and is removed.
RoutedTo(sent, address) ==
    LET mine == SelectSeq(sent, LAMBDA m : Head(m) = address)
    IN  [i \in 1..Len(mine) |-> Tail(mine[i])]

\* What a REQ socket hands to its owner: the frames after the delimiter.
req_recv(routed) == IF Head(routed) = Empty THEN Tail(routed) ELSE routed

\* zframe_reset (zmsg_last (msg), "OK", 2)
reset_last(msg, data) == [msg EXCEPT ![Len(msg)] = data]

\* worker_task up to its loop: send LRU_READY.
worker_ready(k, w) ==
    /\ k \in active /\ ~started[k][w]
    /\ started' = Set(started, k, [started[k] EXCEPT ![w] = TRUE])
    /\ backend_arrived' = Set(backend_arrived, k, Append(backend_arrived[k], ReadyMsg(w)))
    /\ UNCHANGED <<active, interruptible, envelope, brokerVars, frontend_arrived,
                   answered, requested, replied>>

\* One turn of the worker's loop: receive a request, answer "OK".
worker_reply(k, w) ==
    /\ k \in active /\ started[k][w]
    /\ answered[k][w] < Len(RoutedTo(backend_sent[k], w))
    /\ LET msg == req_recv(RoutedTo(backend_sent[k], w)[answered[k][w] + 1])
       IN  backend_arrived' =
               Set(backend_arrived, k,
                   Append(backend_arrived[k], <<w, Empty>> \o reset_last(msg, OK)))
    /\ answered' = Set(answered, k, [answered[k] EXCEPT ![w] = @ + 1])
    /\ UNCHANGED <<active, interruptible, envelope, brokerVars, frontend_arrived,
                   started, requested, replied>>

\* client_task: zstr_send (client, "HELLO")
client_request(k, c) ==
    /\ k \in active /\ requested[k][c] = replied[k][c]
    /\ requested[k][c] < MaxRequests
    /\ requested' = Set(requested, k, [requested[k] EXCEPT ![c] = @ + 1])
    /\ frontend_arrived' =
           Set(frontend_arrived, k, Append(frontend_arrived[k], RequestMsg(c, HELLO)))
    /\ UNCHANGED <<active, interruptible, envelope, brokerVars, backend_arrived,
                   started, answered, replied>>

\* client_task: zstr_recv (client) returns a reply
client_reply(k, c) ==
    /\ k \in active /\ replied[k][c] < requested[k][c]
    /\ replied[k][c] < Len(RoutedTo(frontend_sent[k], c))
    /\ replied' = Set(replied, k, [replied[k] EXCEPT ![c] = @ + 1])
    /\ UNCHANGED <<active, interruptible, envelope, brokerVars, backend_arrived,
                   frontend_arrived, started, answered, requested>>

-----------------------------------------------------------------------------
(* A message taken through zmsg_wrap and then zmsg_unwrap *)

\* no message is under way
NoEnvelope ==
    [m |-> << >>, a |-> NULL, msg |-> << >>, address |-> NULL, step |-> "none"]

\* Frames of the sizes and contents the brokers meet: empty, the READY
\* byte, an identity, a payload.
Frames == {Empty, LRU_READY, <<0, 7>>, OK}

Messages == UNION {[1..n -> Frames] : n \in 0..MaxFrames}

\* zmsg_wrap (msg, address)
wrap_step ==
    /\ envelope.step = "new"
    /\ envelope' = [envelope EXCEPT !.msg = zmsg_wrap(envelope.m, envelope.a),
                                    !.step = "wrapped"]
    /\ UNCHANGED <<active, interruptible, brokerVars, backend_arrived,
                   frontend_arrived, peerVars>>

\* address = zmsg_unwrap (msg)
unwrap_step ==
    /\ envelope.step = "wrapped"
    /\ LET u == zmsg_unwrap(envelope.msg)
       IN  envelope' = [envelope EXCEPT !.msg = u.msg, !.address = u.address,
                                       !.step = "unwrapped"]
    /\ UNCHANGED <<active, interruptible, brokerVars, backend_arrived,
                   frontend_arrived, peerVars>>

-----------------------------------------------------------------------------
(* Specifications *)

\* The state at the first zmq_poll call / at zloop_start.
InitBroker(arrived) ==
    /\ pc = [k \in Impl |-> IF k = "lruqueue2" THEN "poll" ELSE "reactor"]
    /\ workers = [k \in Impl |-> << >>]
    /\ listening = [k \in Impl |-> IF k = "lruqueue2" THEN main_pollset(<< >>)
                                   ELSE {"backend"}]
    /\ revents = [k \in Impl |-> {}]
    /\ backend_arrived = [k \in Impl |-> IF k \in active THEN arrived ELSE << >>]
    /\ backend_nread = [k \in Impl |-> 0]
    /\ frontend_arrived = [k \in Impl |-> << >>]
    /\ frontend_nread = [k \in Impl |-> 0]
    /\ backend_sent = [k \in Impl |-> << >>]
    /\ frontend_sent = [k \in Impl |-> << >>]
    /\ started = [k \in Impl |-> [w \in WorkerAddrs |-> FALSE]]
    /\ answered = [k \in Impl |-> [w \in WorkerAddrs |-> 0]]
    /\ requested = [k \in Impl |-> [c \in ClientAddrs |-> 0]]
    /\ replied = [k \in Impl |-> [c \in ClientAddrs |-> 0]]
    /\ envelope = NoEnvelope

\* The steps of a broker that handle messages.
Broker(k) ==
    \/ main_poll(k)
    \/ main_backend(k)
    \/ main_frontend(k)
    \/ s_handle_backend(k)
    \/ s_handle_frontend(k)

\* The steps that end a broker's event loop.
Interrupted(k) ==
    \/ main_poll_interrupted(k)
    \/ zloop_interrupted(k)

\* One broker, either realization, with arbitrary peers.
Init ==
    /\ active \in {{k} : k \in Impl}
    /\ interruptible = TRUE
    /\ InitBroker(<< >>)

Feed ==
    \/ \E m \in BackendMsgs : FeedBackend(m)
    \/ \E m \in FrontendMsgs : FeedFrontend(m)

Next ==
    \/ Feed
    \/ \E k \in Impl : Broker(k)
    \/ \E k \in Impl : Interrupted(k)

Spec == Init /\ [][Next]_vars

\* Both realizations side by side, fed the same messages and never
\* interrupted.
InitBoth ==
    /\ active = Impl
    /\ interruptible = FALSE
    /\ InitBroker(<< >>)

NextBoth ==
    \/ Feed
    \/ \E k \in Impl : Broker(k)

SpecBoth == InitBoth /\ [][NextBoth]_vars

\* One broker, either realization, with the worker and client tasks of
\* the example as its peers.
Peers ==
    \/ \E k \in Impl, w \in WorkerAddrs : worker_ready(k, w)
    \/ \E k \in Impl, w \in WorkerAddrs : worker_reply(k, w)
    \/ \E k \in Impl, c \in ClientAddrs : client_request(k, c)
    \/ \E k \in Impl, c \in ClientAddrs : client_reply(k, c)

NextPeers ==
    \/ Peers
    \/ \E k \in Impl : Broker(k)
    \/ \E k \in Impl : Interrupted(k)

SpecPeers == Init /\ [][NextPeers]_vars

\* The sequences of LRU_READY messages of distinct workers.
ReadySeqs ==
    {<< >>}
        \cup {<<ReadyMsg(w)>> : w \in WorkerAddrs}
        \cup {<<ReadyMsg(p[1]), ReadyMsg(p[2])>> :
                  p \in {q \in WorkerAddrs \X WorkerAddrs : q[1] # q[2]}}

\* One broker, either realization: distinct workers have signalled ready,
\* then only client requests arrive.
InitReady ==
    /\ active \in {{k} : k \in Impl}
    /\ interruptible = TRUE
    /\ \E arrived \in ReadySeqs : InitBroker(arrived)

NextReady ==
    \/ \E m \in FrontendMsgs : FeedFrontend(m)
    \/ \E k \in Impl : Broker(k)
    \/ \E k \in Impl : Interrupted(k)

SpecReady == InitReady /\ [][NextReady]_vars

\* One broker, either realization, never interrupted, with the worker and
\* client tasks as peers; the broker and every task keep being scheduled.
InitLive ==
    /\ active \in {{k} : k \in Impl}
    /\ interruptible = FALSE
    /\ InitBroker(<< >>)

NextLive ==
    \/ Peers
    \/ \E k \in Impl : Broker(k)

Fairness ==
    /\ \A k \in Impl : WF_vars(Broker(k))
    /\ \A k \in Impl, w \in WorkerAddrs :
          WF_vars(worker_ready(k, w) \/ worker_reply(k, w))
    /\ \A k \in Impl, c \in ClientAddrs :
          WF_vars(client_request(k, c) \/ client_reply(k, c))

SpecLive == InitLive /\ [][NextLive]_vars /\ Fairness

\* Messages a peer that is not a REQ socket can put on the backend: the
\* identity the ROUTER prepends, then only an empty frame, or two.
MalformedBackend ==
    {<<w, Empty>> : w \in WorkerAddrs} \cup {<<(<<0, 7>>), Empty, Empty>>}

\* A frontend message with no delimiter after the identity.
MalformedFrontend == {<<(<<0, 9>>), HELLO>>}

FeedMalformed ==
    \/ \E m \in {ReadyMsg(<<0, 7>>), ReplyMsg(<<0, 7>>, <<0, 9>>, OK)}
              \cup MalformedBackend : FeedBackend(m)
    \/ \E m \in {RequestMsg(<<0, 9>>, HELLO)} \cup MalformedFrontend :
          FeedFrontend(m)

\* One broker, either realization, never interrupted, with peers that
\* also send messages of other shapes.
InitMalformed ==
    /\ active \in {{k} : k \in Impl}
    /\ interruptible = FALSE
    /\ InitBroker(<< >>)

NextMalformed ==
    \/ FeedMalformed
    \/ \E k \in Impl : Broker(k)

SpecMalformed == InitMalformed /\ [][NextMalformed]_vars

\* Any message and any address frame, wrapped and then unwrapped; no
\* broker runs.
InitEnvelope ==
    /\ active = {}
    /\ interruptible = FALSE
    /\ pc = [k \in Impl |-> IF k = "lruqueue2" THEN "poll" ELSE "reactor"]
    /\ workers = [k \in Impl |-> << >>]
    /\ listening = [k \in Impl |-> {"backend"}]
    /\ revents = [k \in Impl |-> {}]
    /\ backend_arrived = [k \in Impl |-> << >>]
    /\ backend_nread = [k \in Impl |-> 0]
    /\ frontend_arrived = [k \in Impl |-> << >>]
    /\ frontend_nread = [k \in Impl |-> 0]
    /\ backend_sent = [k \in Impl |-> << >>]
    /\ frontend_sent = [k \in Impl |-> << >>]
    /\ started = [k \in Impl |-> [w \in WorkerAddrs |-> FALSE]]
    /\ answered = [k \in Impl |-> [w \in WorkerAddrs |-> 0]]
    /\ requested = [k \in Impl |-> [c \in ClientAddrs |-> 0]]
    /\ replied = [k \in Impl |-> [c \in ClientAddrs |-> 0]]
    /\ \E m \in Messages, a \in Frames :
          envelope = [m |-> m, a |-> a, msg |-> m, address |-> NULL, step |-> "new"]

NextEnvelope ==
    \/ wrap_step
    \/ unwrap_step

SpecEnvelope == InitEnvelope /\ [][NextEnvelope]_vars

-----------------------------------------------------------------------------
(* Properties *)

\* The broker is waiting for events: inside zmq_poll, or inside the
\* reactor between two handler calls.
Waiting(k) == k \in active /\ pc[k] \in {"poll", "reactor"}

\* The broker received a message from the socket in this step.
ReadsBackend(k) == backend_nread'[k] = backend_nread[k] + 1

ReadsFrontend(k) == frontend_nread'[k] = frontend_nread[k] + 1

C1_Subscribed ==
    \A k \in active :
        Waiting(k) => (("frontend" \in listening[k]) <=> (Len(workers[k]) > 0))

C1_Initially ==
    \A k \in active : workers[k] = << >> /\ "frontend" \notin listening[k]

\* C1: a broker starts with an empty ready queue and without listening to
\* the frontend, and whenever it waits for events (in zmq_poll, or in the
\* reactor between handlers) it listens to the frontend if and only if
\* the ready queue is not empty.
C1_SubscriptionInvariant == C1_Initially /\ []C1_Subscribed

\* The reactor went from one ready worker to none and cancelled the
\* frontend reader while another request was already pending.
C1_Witness ==
    /\ Waiting("lruqueue3")
    /\ frontend_nread["lruqueue3"] = 1
    /\ Readable("lruqueue3", "frontend")
    /\ workers["lruqueue3"] = << >>
    /\ "frontend" \notin listening["lruqueue3"]

\* C2: when N distinct workers have signalled ready and then only client
\* requests arrive, the i-th message sent on the backend carries the i-th
\* request and is addressed to the i-th worker in readiness order.
C2_LruFairness ==
    \A k \in active :
        \A i \in 1..Len(backend_sent[k]) :
            /\ i <= Len(backend_arrived[k])
            /\ Head(backend_sent[k][i]) = Head(backend_arrived[k][i])
            /\ SubSeq(backend_sent[k][i], 3, Len(backend_sent[k][i]))
                   = frontend_arrived[k][i]

\* Two workers were ready before the first request was read, and two
\* requests have been dispatched.
C2_Witness ==
    \E k \in active :
        /\ Len(backend_arrived[k]) = 2
        /\ Len(backend_sent[k]) = 2
        /\ workers[k] = << >>

\* C3: every step that receives a client request from the frontend starts
\* in a state whose ready queue holds at least one worker, and no broker
\* ever aborts on a NULL worker frame.
C3_NeverPopsEmpty ==
    [][\A k \in active :
          /\ ReadsFrontend(k) => zlist_size(workers[k]) >= 1
          /\ pc'[k] # "aborted"]_vars

\* lruqueue2 is about to receive a request from the frontend in a wake in
\* which it has just handled the backend as well.
C3_Witness ==
    /\ "lruqueue2" \in active
    /\ pc["lruqueue2"] = "frontend"
    /\ revents["lruqueue2"] = {"backend", "frontend"}
    /\ backend_nread["lruqueue2"] = 2
    /\ Len(workers["lruqueue2"]) = 2

\* A backend message is a job reply when a client address and a body
\* follow the worker's address and delimiter.
IsReply(m) == Len(m) = 5 /\ m[3] \in ClientAddrs

\* What is left of a backend message once the worker address (and its
\* delimiter) is taken off.
Remainder(m) == SubSeq(m, 3, Len(m))

\* C4: whenever the broker receives the reply of worker W for client C, it
\* sends exactly that reply on the frontend, addressed to C, and appends
\* W to the ready queue.
C4_ReplyForwarded ==
    [][\A k \in active :
          (ReadsBackend(k) /\ IsReply(NextBackend(k))) =>
              /\ Len(frontend_sent'[k]) = Len(frontend_sent[k]) + 1
              /\ frontend_sent'[k][Len(frontend_sent'[k])] = Remainder(NextBackend(k))
              /\ Head(frontend_sent'[k][Len(frontend_sent'[k])]) = NextBackend(k)[3]
              /\ workers'[k] = Append(workers[k], Head(NextBackend(k)))]_vars

\* C5: whenever the broker receives a client request while the ready
\* queue is not empty, it sends exactly one message on the backend, which
\* is addressed to the worker at the front of the queue and ends with the
\* request's frames, and the queue loses exactly that worker.
C5_NoRequestLoss ==
    [][\A k \in active :
          (ReadsFrontend(k) /\ Len(workers[k]) > 0) =>
              LET n == Len(backend_sent[k])
                  req == NextFrontend(k)
              IN  /\ Len(backend_sent'[k]) = n + 1
                  /\ SubSeq(backend_sent'[k], 1, n) = backend_sent[k]
                  /\ Head(backend_sent'[k][n + 1]) = Head(workers[k])
                  /\ SubSeq(backend_sent'[k][n + 1],
                            Len(backend_sent'[k][n + 1]) - Len(req) + 1,
                            Len(backend_sent'[k][n + 1])) = req
                  /\ Len(workers'[k]) = Len(workers[k]) - 1
                  /\ workers'[k] = Tail(workers[k])]_vars

\* Two requests were received and two messages sent on the backend.
C5_Witness ==
    \E k \in active :
        /\ frontend_nread[k] = 2
        /\ Len(backend_sent[k]) = 2
        /\ Head(backend_sent[k][1]) # Head(backend_sent[k][2])

\* C6: a backend message is discarded if and only if the first frame left
\* after the worker address is unwrapped equals the one-byte LRU_READY;
\* every other message is sent on the frontend as it is.
C6_SentinelExact ==
    [][\A k \in active :
          ReadsBackend(k) =>
              IF Head(Remainder(NextBackend(k))) = LRU_READY
              THEN frontend_sent'[k] = frontend_sent[k]
              ELSE frontend_sent'[k] =
                       Append(frontend_sent[k], Remainder(NextBackend(k)))]_vars

\* C7: a backend message that consists of the worker's address and the
\* one-byte LRU_READY alone is never sent on the frontend.
C7_ReadinessSuppressed ==
    [][\A k \in active :
          (ReadsBackend(k) /\ Remainder(NextBackend(k)) = <<LRU_READY>>) =>
              frontend_sent'[k] = frontend_sent[k]]_vars

\* A broker has received a READY and a reply, and forwarded only the reply.
C7_Witness ==
    \E k \in active :
        /\ backend_nread[k] = 2
        /\ Remainder(backend_arrived[k][1]) = <<LRU_READY>>
        /\ IsReply(backend_arrived[k][2])
        /\ Len(frontend_sent[k]) = 1

\* C8: while the ready queue is empty a pending client request is not
\* received, and the only step that ends this is the receipt of a worker's
\* message from the backend, which makes the queue non-empty.
C8_Backpressure ==
    [][\A k \in active :
          (workers[k] = << >> /\ Readable(k, "frontend")) =>
              /\ frontend_nread'[k] = frontend_nread[k]
              /\ frontend_arrived'[k][frontend_nread'[k] + 1] = NextFrontend(k)
              /\ workers'[k] # << >> => ReadsBackend(k)]_vars

\* A request that waited on the frontend while no worker was ready has
\* been dispatched to the worker that became ready after it arrived.
C8_Witness ==
    \E k \in active :
        /\ Waiting(k)
        /\ frontend_nread[k] = 1 /\ backend_nread[k] = 1
        /\ Len(backend_sent[k]) = 1
        /\ workers[k] = << >>
        /\ Readable(k, "frontend")
        /\ "frontend" \notin listening[k]

\* Two sequences agree wherever both are defined.
Agree(s, t) ==
    \A i \in 1..(IF Len(s) < Len(t) THEN Len(s) ELSE Len(t)) : s[i] = t[i]

\* C9: fed the same messages, lruqueue2 and lruqueue3 send the same
\* messages in the same order on the backend and on the frontend, and
\* whenever both have received the same number of messages from each
\* socket they hold the same ready queue and have sent the same messages.
C9_Equivalent ==
    /\ Agree(backend_sent["lruqueue2"], backend_sent["lruqueue3"])
    /\ Agree(frontend_sent["lruqueue2"], frontend_sent["lruqueue3"])
    /\ (/\ backend_nread["lruqueue2"] = backend_nread["lruqueue3"]
        /\ frontend_nread["lruqueue2"] = frontend_nread["lruqueue3"])
           => /\ workers["lruqueue2"] = workers["lruqueue3"]
              /\ backend_sent["lruqueue2"] = backend_sent["lruqueue3"]
              /\ frontend_sent["lruqueue2"] = frontend_sent["lruqueue3"]

\* Both brokers have handled two worker messages and two requests, have
\* dispatched both requests and forwarded a reply.
C9_Witness ==
    \A k \in Impl :
        /\ k \in active
        /\ backend_nread[k] = 2 /\ frontend_nread[k] = 2
        /\ Len(backend_sent[k]) = 2
        /\ Len(frontend_sent[k]) = 1

\* C10: with the example's worker tasks as peers (one READY at start, one
\* reply per request received), no worker address is in the ready queue
\* twice.
C10_NoDuplicates ==
    \A k \in active :
        \A i, j \in 1..Len(workers[k]) : i # j => workers[k][i] # workers[k][j]

\* A worker that has answered a request is back in the ready queue,
\* behind the other worker.
C10_Witness ==
    \E k \in active :
        /\ Len(workers[k]) = 2
        /\ answered[k][workers[k][2]] = 1
        /\ pc[k] \notin {"done", "aborted"}

\* lruqueue2 moves on from its backend / frontend step although the item
\* was flagged readable and no message was received: zmsg_recv returned
\* NULL.
BackendRecvFailed(k) ==
    /\ pc[k] = "backend" /\ "backend" \in revents[k]
    /\ pc'[k] # "backend" /\ backend_nread'[k] = backend_nread[k]

FrontendRecvFailed(k) ==
    /\ pc[k] = "frontend" /\ "frontend" \in revents[k]
    /\ pc'[k] # "frontend" /\ frontend_nread'[k] = frontend_nread[k]

\* zmq_poll / zloop_start returned without a readable item to handle.
WaitFailed(k) == Waiting(k) /\ pc'[k] \notin {"poll", "reactor", "backend"}

\* C11: when the wait fails or a receive on the backend or the frontend
\* fails, the broker leaves its event loop in that step, sends nothing
\* more, and the cleanup leaves the ready queue empty.
C11_InterruptionExits ==
    [][\A k \in active :
          (WaitFailed(k) \/ BackendRecvFailed(k) \/ FrontendRecvFailed(k)) =>
              /\ pc'[k] = "done"
              /\ workers'[k] = << >>
              /\ backend_sent'[k] = backend_sent[k]
              /\ frontend_sent'[k] = frontend_sent[k]]_vars

\* C12: whenever a broker waits for events the backend is listened to:
\* it is in the poll set of every zmq_poll call of lruqueue2, and its
\* reader stays registered in lruqueue3, whatever the ready queue holds.
C12_BackendAlwaysListened ==
    \A k \in active : Waiting(k) => "backend" \in listening[k]

\* A broker waits with the backend alone listened to, after its ready
\* queue filled and was emptied again by two dispatches.
C12_Witness ==
    \E k \in active :
        /\ Waiting(k)
        /\ frontend_nread[k] = 2
        /\ workers[k] = << >>
        /\ listening[k] = {"backend"}

\* The message a dispatch step appended to what was sent on the backend.
Dispatched(k) == backend_sent'[k][Len(backend_sent'[k])]

\* The frames of a request that follow its address and delimiter.
BodyOf(req) == SubSeq(req, 3, Len(req))

\* C13 as stated: the message sent on the backend for a request is the
\* popped worker's address, then the client's address, then the client's
\* body frames: [W1, client-addr, "HELLO"].
C13_EnvelopeAsStated ==
    [][\A k \in active :
          (ReadsFrontend(k) /\ Len(workers[k]) > 0) =>
              Dispatched(k) = <<Head(workers[k]), Head(NextFrontend(k))>>
                                  \o BodyOf(NextFrontend(k))]_vars

\* C13: the message sent on the backend for a request is the popped
\* worker's address, an empty frame, and then the request as it was
\* received from the frontend, frame for frame: the client's address, the
\* empty delimiter, the body frames: [W1, "", client-addr, "", "HELLO"].
C13_EnvelopeRewriting ==
    [][\A k \in active :
          (ReadsFrontend(k) /\ Len(workers[k]) > 0) =>
              /\ Len(backend_sent'[k]) = Len(backend_sent[k]) + 1
              /\ Dispatched(k) = <<Head(workers[k]), Empty>> \o NextFrontend(k)
              /\ Dispatched(k) = <<Head(workers[k]), Empty, Head(NextFrontend(k)), Empty>>
                                     \o BodyOf(NextFrontend(k))]_vars

\* The request "HELLO" of client 00 09 has been sent to worker 00 07.
C13_Witness ==
    \E k \in active :
        /\ Len(backend_sent[k]) >= 1
        /\ backend_sent[k][1] = <<(<<0, 7>>), Empty, (<<0, 9>>), Empty, HELLO>>

\* C14: unwrapping the result of wrapping a message m with an address a
\* yields the address a and the message m, frame for frame.
C14_EnvelopeRoundTrip ==
    envelope.step = "unwrapped" =>
        /\ envelope.address = envelope.a
        /\ envelope.msg = envelope.m

\* The round trip of a message that itself starts with an empty frame.
C14_Witness ==
    /\ envelope.step = "unwrapped"
    /\ Len(envelope.m) = 2
    /\ Head(envelope.m) = Empty
    /\ envelope.a = OK

\* C15: a backend or frontend message of an unexpected shape never stops
\* the broker: it is not aborted by it.
C15_MalformedSurvivable == \A k \in active : pc[k] # "aborted"

\* C16: every backend receive appends the sender's address at the back of
\* the list, whatever the rest of the message is and whatever the handler
\* does next; the entries already there keep their places.
C16_SenderReEnqueued ==
    [][\A k \in active :
          ReadsBackend(k) =>
              /\ workers'[k] = Append(workers[k], Head(NextBackend(k)))
              /\ Len(workers'[k]) = Len(workers[k]) + 1
              /\ SubSeq(workers'[k], 1, Len(workers[k])) = workers[k]]_vars

\* A reply was read while another worker was queued, and a message with
\* nothing after the address was read too: both senders are queued behind.
C16_Witness ==
    \E k \in active :
        /\ pc[k] = "aborted"
        /\ backend_nread[k] = 2
        /\ backend_arrived[k][1] = ReplyMsg(<<0, 7>>, <<0, 9>>, OK)
        /\ workers[k] = <<(<<0, 7>>), (<<0, 8>>)>>

\* The workers the broker has sent requests to, in order.
DispatchedTo(k) ==
    [i \in 1..Len(backend_sent[k]) |-> Head(backend_sent[k][i])]

\* The broker has read two ready signals of worker w and nothing else from
\* the backend.
DoubleReady(k, w) ==
    /\ pc[k] # "done"
    /\ backend_nread[k] = 2
    /\ backend_arrived[k][1] = ReadyMsg(w)
    /\ backend_arrived[k][2] = ReadyMsg(w)

\* C17: after two ready signals in a row from one worker, that worker's
\* address has been queued twice: each of the two entries is still in the
\* list or has had a client request dispatched to it, with no reply read.
C17_DoubleReadyQueuedTwice ==
    \A k \in active : \A w \in WorkerAddrs :
        DoubleReady(k, w) => DispatchedTo(k) \o workers[k] = <<w, w>>

\* Two requests have gone to the same worker, which has replied to neither.
C17_Witness ==
    \E k \in active : \E w \in WorkerAddrs :
        /\ DoubleReady(k, w)
        /\ DispatchedTo(k) = <<w, w>>
        /\ workers[k] = << >>

\* The workers whose messages the broker has read from the backend.
Announced(k) ==
    {Head(backend_arrived[k][i]) : i \in 1..backend_nread[k]}

\* entries of the list holding this worker's address
InQueue(k, w) == Cardinality({i \in 1..Len(workers[k]) : workers[k][i] = w})

\* requests dispatched to the worker less the replies read from it; the
\* first message read from a worker is its ready signal
Outstanding(k, w) ==
    Cardinality({i \in 1..Len(backend_sent[k]) : Head(backend_sent[k][i]) = w})
        - (Cardinality({i \in 1..backend_nread[k] :
                           Head(backend_arrived[k][i]) = w}) - 1)

\* C18: while the broker runs with the example's workers as peers, each
\* worker whose ready signal it has read is either once in the list with
\* no request outstanding or absent from it with exactly one outstanding;
\* list size plus outstanding requests is the number of such workers.
C18_WorkerAccounting ==
    \A k \in active :
        pc[k] \notin {"done", "aborted"} =>
            /\ \A w \in Announced(k) :
                   \/ InQueue(k, w) = 1 /\ Outstanding(k, w) = 0
                   \/ InQueue(k, w) = 0 /\ Outstanding(k, w) = 1
            /\ Len(workers[k])
                   + Cardinality({w \in Announced(k) : Outstanding(k, w) = 1})
                 = Cardinality(Announced(k))

\* One worker waits in the list while the other has answered a job and
\* holds its next one.
C18_Witness ==
    \E k \in active :
        /\ pc[k] \notin {"done", "aborted"}
        /\ Cardinality(Announced(k)) = 2
        /\ Len(workers[k]) = 1
        /\ \E w \in Announced(k) :
              /\ Outstanding(k, w) = 1
              /\ Cardinality({i \in 1..Len(backend_sent[k]) :
                                  Head(backend_sent[k][i]) = w}) = 2

\* C19: every request a client has sent is eventually dispatched to a
\* worker and its reply eventually received by that client.
C19_Progress ==
    \A k \in Impl : \A c \in ClientAddrs :
        (requested[k][c] > replied[k][c])
            ~> (/\ \E i \in 1..Len(backend_sent[k]) :
                      backend_sent[k][i][3] = c
                /\ replied[k][c] = requested[k][c])

====
